---- MODULE Spec2Model ----
(***************************************************************************)
(* Model of the signal-generation and backtesting core of algo_trading:    *)
(*   modules/strategy_engine.py  generate_signals                          *)
(*   modules/backtester.py       backtest_strategy                         *)
(* generate_signals is modelled row by row (one action per loop iteration), *)
(* backtest_strategy likewise, followed by its end-of-sequence flush.       *)
(***************************************************************************)
EXTENDS Integers, Sequences, FiniteSets

\* ------------------------------------------------------------------ bounds
\* Longest indicator / signal series explored (rows 0 .. MaxRows-1).
MaxRows == 3
\* Close prices of the backtested frame range over 1 .. MaxClose.
MaxClose == 3
\* Longest signal frame backtested (rows 0 .. MaxBars-1).
MaxBars == 4
\* Initial capital ranges over 1 .. MaxCapital.
MaxCapital == 4
\* Tickers of a run of main (settings.TICKERS), numbered 1 .. MaxTickers.
MaxTickers == 2
\* Rows a fetched series may have beyond the DMA_SHORT warm-up.
MaxExtra == 3
\* Longest trade ledger handed from the backtest to main.
MaxTrades == 2

\* settings.RSI_WINDOW, settings.DMA_SHORT
RSI_WINDOW == 14
DMA_SHORT == 20

\* RSI readings: one or two per band of the strategy, among them each of its
\* thresholds 25, 30, 40, 65, 70 (all tested strictly) and the nearest
\* reading that passes the test: 24 < 25, 25 < 30, 30 < 40, 70 > 65, 71 > 70.
RSIValues == {24, 25, 30, 40, 65, 70, 71}

\* Levels of DMA_20, DMA_50 and Close in the indicator frame.  The strategy
\* only compares these three within one row, and three levels realise every
\* weak ordering of three quantities.
Prices == {1, 2, 3}

\* The representation of an undefined (NaN) DMA_50; prices are >= 1.
NaN == 0

isna(x) == x = NaN

VARIABLES
    \* ---- generate_signals
    n,          \* len(df)
    nan50,      \* number of leading rows whose DMA_50 is NaN (rolling mean warm-up)
    i,          \* index of the row the loop processed last (0 before the loop)
    prev,       \* the fields of row i-1 the loop reads: DMA_20, DMA_50, Close
    row,        \* row i of df: RSI, DMA_20, DMA_50, Close
    Signal,     \* df['Signal'],   rows 0 .. n-1
    Position,   \* df['Position'], rows 0 .. n-1
    pre,        \* pre[len]: the Signal and Position columns of the run of
                \* generate_signals on the first len rows of the same frame
    spc,        \* "idle", "loop", "done"
    \* ---- backtest_strategy
    initial_capital,
    capital,
    position,
    buy_price,
    trades,
    trade_count,
    win_count,
    nbars,      \* len(df) of the frame being backtested
    bi,         \* number of rows iterated so far
    date,       \* df.index value (timestamp) of the row iterated last
    bar,        \* the row iterated last: Signal, Close
    result,     \* the returned metrics
    bpc,        \* "idle", "loop", "metrics", "done"
    \* ---- main
    mpc,        \* position in main: "idle", "start", "loop", "strategy",
                \* "log", "ml", "summary", "alerts", "done", "returned"
                \* (main returned early), "crashed" (exception left main)
    tk,         \* the ticker of the current iteration of the loop
    df_len,     \* len(df) of the current ticker after the indicators
    ledger,     \* trades returned by backtest_strategy for the current ticker
    hist,       \* per ticker: what the run did with it
    trade_log,  \* trades handed to csv_writer.log_trade / sheets_logger.log_trade
    all_summaries,
    alerts,     \* calls of telegram_bot.send_trading_signal
    summary_csv, \* summaries handed to csv_writer.log_summary by finalize_system
    \* ---- calculate_technical_indicators
    ipc,        \* "idle", "loop", "done"
    nrows,      \* len(df) of the frame handed in
    ri,         \* the row whose indicators were computed last
    last_close, \* df['Close'] of row ri
    avg_gain,   \* sign of the smoothed average gain at row ri
    avg_loss,   \* sign of the smoothed average loss at row ri
    rsi,        \* df['RSI'] of row ri
    kept,       \* row ri survives dropna(subset=['RSI', 'DMA_20'])
    out_len     \* rows of df_clean so far

sigVars == <<n, nan50, i, prev, row, Signal, Position, pre, spc>>
btVars == <<initial_capital, capital, position, buy_price, trades,
            trade_count, win_count, nbars, bi, date, bar, result, bpc>>
mainVars == <<mpc, tk, df_len, ledger, hist, trade_log, all_summaries,
              alerts, summary_csv>>
indVars == <<ipc, nrows, ri, last_close, avg_gain, avg_loss, rsi, kept,
             out_len>>
vars == <<sigVars, btVars, mainVars, indVars>>

\* calculate_technical_indicators not running
IndIdle ==
    /\ ipc = "idle" /\ nrows = 0 /\ ri = 0 /\ last_close = 0
    /\ avg_gain = "zero" /\ avg_loss = "zero" /\ rsi = "NaN"
    /\ kept = FALSE /\ out_len = 0

\* main not running
MainIdle ==
    /\ mpc = "idle" /\ tk = 0 /\ df_len = 0 /\ ledger = <<>> /\ hist = <<>>
    /\ trade_log = <<>> /\ all_summaries = <<>> /\ alerts = <<>>
    /\ summary_csv = <<>>

\* ------------------------------------------------------- generate_signals

\* df['DMA_50'] is a rolling mean: undefined exactly on a prefix of the rows
\* (data_loader drops rows without RSI / DMA_20 and forward-fills the rest).
Rows(k) ==
    [RSI : RSIValues, DMA_20 : Prices,
     DMA_50 : IF k < nan50 THEN {NaN} ELSE Prices, Close : Prices]

PrevOf(r) == [DMA_20 |-> r.DMA_20, DMA_50 |-> r.DMA_50, Close |-> r.Close]

\* Mutant of HasLongMa: the long-MA branch taken on every frame.
HasLongMa_always(len) == TRUE

\* has_long_ma = not df['DMA_50'].isna().all(), for a frame of len rows
HasLongMa(len) == nan50 < len

has_long_ma == HasLongMa(n)

\* Mutant of current_ma50: an undefined DMA_50 not replaced by DMA_20.
current_ma50_keeps_nan(r) == r.DMA_50

current_ma50(r) == IF ~isna(r.DMA_50) THEN r.DMA_50 ELSE r.DMA_20

prev_ma50(p) == IF ~isna(p.DMA_50) THEN p.DMA_50 ELSE p.DMA_20

long_ma_available(h, p, r) ==
    h /\ ~isna(current_ma50(r)) /\ ~isna(prev_ma50(p))

golden_cross(h, p, r) ==
    IF long_ma_available(h, p, r)
    THEN r.DMA_20 > current_ma50(r) /\ p.DMA_20 <= prev_ma50(p)
    ELSE r.Close > r.DMA_20 /\ p.Close <= p.DMA_20

ma20_above_ma50(h, p, r) ==
    IF long_ma_available(h, p, r)
    THEN r.DMA_20 > current_ma50(r)
    ELSE r.Close > r.DMA_20

price_above_ma20(r) == r.Close > r.DMA_20

strong_buy(h, p, r, cp) ==
    (r.RSI < 25 /\ ma20_above_ma50(h, p, r)) /\ cp <= 0

\* Mutant of golden_buy: the RSI < 40 test left out.
golden_buy_any_rsi(h, p, r, cp) == golden_cross(h, p, r) /\ cp <= 0

golden_buy(h, p, r, cp) ==
    (golden_cross(h, p, r) /\ r.RSI < 40) /\ cp <= 0

trend_buy(h, p, r, cp) ==
    (r.RSI < 30 /\ ma20_above_ma50(h, p, r) /\ price_above_ma20(r)) /\ cp <= 0

BuyFires(h, p, r, cp) ==
    strong_buy(h, p, r, cp) \/ golden_buy(h, p, r, cp) \/ trend_buy(h, p, r, cp)

death_cross(h, p, r) ==
    IF long_ma_available(h, p, r)
    THEN r.DMA_20 < current_ma50(r) /\ p.DMA_20 >= prev_ma50(p)
    ELSE r.Close < r.DMA_20 /\ p.Close >= p.DMA_20

ma20_below_ma50(h, p, r) ==
    IF long_ma_available(h, p, r)
    THEN r.DMA_20 < current_ma50(r)
    ELSE r.Close < r.DMA_20

price_below_ma20(r) == r.Close < r.DMA_20

\* Mutant of strong_sell: the comparison reversed.
strong_sell_reversed(r) == r.RSI < 70

strong_sell(r) == r.RSI > 70

death_sell(h, p, r, cp) == death_cross(h, p, r) /\ cp > 0

trend_sell(h, p, r, cp) == (r.RSI > 65 /\ ma20_below_ma50(h, p, r)) /\ cp > 0

stop_loss(h, p, r, cp) ==
    (price_below_ma20(r) /\ ma20_below_ma50(h, p, r)) /\ cp > 0

\* Mutant of SellFires: the strong-overbought exit gated by the position.
SellFires_all_gated(h, p, r, cp) ==
    (strong_sell(r) /\ cp > 0) \/ death_sell(h, p, r, cp)
        \/ trend_sell(h, p, r, cp) \/ stop_loss(h, p, r, cp)

SellFires(h, p, r, cp) ==
    strong_sell(r) \/ death_sell(h, p, r, cp) \/ trend_sell(h, p, r, cp)
        \/ stop_loss(h, p, r, cp)

\* The two cells of row i after the BUY block (lines 74-76): written to 1, 1
\* when a BUY condition holds, else still the 0, 0 of lines 28-29.
BuyBlock(h, p, r, cp) ==
    IF BuyFires(h, p, r, cp)
    THEN [Signal |-> 1, Position |-> 1]
    ELSE [Signal |-> 0, Position |-> 0]

\* Mutant of SellBlock: the else branch that carries current_position left out.
SellBlock_no_hold(h, p, r, cp, cells) ==
    IF SellFires(h, p, r, cp)
    THEN [Signal |-> -1, Position |-> 0]
    ELSE cells

\* The two cells after the SELL block (lines 104-110), which runs on every
\* row: its else branch writes Position = current_position.
SellBlock(h, p, r, cp, cells) ==
    IF SellFires(h, p, r, cp)
    THEN [Signal |-> -1, Position |-> 0]
    ELSE [Signal |-> cells.Signal, Position |-> cp]

\* One iteration of the loop body for row r after row p.
RowResult(h, p, r, cp) == SellBlock(h, p, r, cp, BuyBlock(h, p, r, cp))

NoBar == [Signal |-> 0, Close |-> 0]

NoResult == [total_return |-> <<0, 1>>, win_rate |-> <<0, 1>>, trade_count |-> 0]

\* backtest_strategy not running
BtIdle ==
    /\ initial_capital = 0 /\ capital = 0 /\ position = 0 /\ buy_price = 0
    /\ trades = <<>> /\ trade_count = 0 /\ win_count = 0
    /\ nbars = 0 /\ bi = 0 /\ date = 0 /\ bar = NoBar /\ result = NoResult
    /\ bpc = "idle"

\* Mutant of SignalInit: row 0 decided by its own RSI.
SignalInit_decides_row0 ==
    /\ n \in 1..MaxRows
    /\ nan50 \in 0..n
    /\ i = 0
    /\ row \in Rows(0)
    /\ prev = PrevOf(row)
    /\ Signal = [k \in 0..(n-1) |-> IF k = 0 /\ row.RSI > 70 THEN -1 ELSE 0]
    /\ Position = [k \in 0..(n-1) |-> 0]
    /\ pre = [len \in 1..n |-> [Signal |-> [k \in 0..(len-1) |-> 0],
                                Position |-> [k \in 0..(len-1) |-> 0]]]
    /\ spc = "loop"
    /\ BtIdle
    /\ MainIdle
    /\ IndIdle

SignalInit ==
    /\ n \in 1..MaxRows
    /\ nan50 \in 0..n
    /\ i = 0
    /\ row \in Rows(0)
    /\ prev = PrevOf(row)
    /\ Signal = [k \in 0..(n-1) |-> 0]
    /\ Position = [k \in 0..(n-1) |-> 0]
    /\ pre = [len \in 1..n |-> [Signal |-> [k \in 0..(len-1) |-> 0],
                                Position |-> [k \in 0..(len-1) |-> 0]]]
    /\ spc = "loop"
    /\ BtIdle
    /\ MainIdle
    /\ IndIdle

\* for i in range(1, len(df)): one iteration, reading rows i-1 and i
SignalStep ==
    /\ spc = "loop"
    /\ i + 1 < n
    /\ \E r \in Rows(i + 1) :
        LET current_position == Position[i]
            res == RowResult(has_long_ma, PrevOf(row), r, current_position)
        IN  /\ Signal' = [Signal EXCEPT ![i + 1] = res.Signal]
            /\ Position' = [Position EXCEPT ![i + 1] = res.Position]
            /\ pre' = [len \in 1..n |->
                    IF i + 1 < len
                    THEN LET out == RowResult(HasLongMa(len), PrevOf(row), r,
                                              pre[len].Position[i])
                         IN  [Signal |-> [pre[len].Signal EXCEPT
                                              ![i + 1] = out.Signal],
                              Position |-> [pre[len].Position EXCEPT
                                              ![i + 1] = out.Position]]
                    ELSE pre[len]]
            /\ prev' = PrevOf(row)
            /\ row' = r
    /\ i' = i + 1
    /\ UNCHANGED <<n, nan50, spc>>
    /\ UNCHANGED btVars
    /\ UNCHANGED mainVars
    /\ UNCHANGED indVars

\* return df
SignalReturn ==
    /\ spc = "loop"
    /\ i + 1 >= n
    /\ spc' = "done"
    /\ UNCHANGED <<n, nan50, i, prev, row, Signal, Position, pre>>
    /\ UNCHANGED btVars
    /\ UNCHANGED mainVars
    /\ UNCHANGED indVars

SignalNext == SignalStep \/ SignalReturn

SignalSpec == SignalInit /\ [][SignalNext]_vars

\* ------------------------------------------------------ backtest_strategy

\* generate_signals not running
SigIdle ==
    /\ n = 0 /\ nan50 = 0 /\ i = 0
    /\ row = [RSI |-> 0, DMA_20 |-> 0, DMA_50 |-> NaN, Close |-> 0]
    /\ prev = PrevOf(row)
    /\ Signal = <<>> /\ Position = <<>> /\ pre = <<>>
    /\ spc = "idle"

\* Row k of the frame handed to backtest_strategy.  Row 0 carries Signal 0
\* (generate_signals never writes it); close prices are > 0.
Bars(k) ==
    [Signal : IF k = 0 THEN {0} ELSE {-1, 0, 1}, Close : 1..MaxClose]

\* Mutant of Shares: the share count rounded up.
Shares_rounded_up(cap, close) == (cap + close - 1) \div close

\* capital // row['Close']
Shares(cap, close) == cap \div close

BuyTrade(ts, price, qty) ==
    [Timestamp |-> ts, Type |-> "BUY", Price |-> price, Quantity |-> qty]

SellTrade(ts, price, qty, pnl) ==
    [Timestamp |-> ts, Type |-> "SELL", Price |-> price, Quantity |-> qty,
     PnL |-> pnl]

\* Mutant of PnLOf: the entry and exit prices exchanged.
PnLOf_swapped(price, entry, qty) == (entry - price) * qty

\* pnl = (sell_price - buy_price) * position
PnLOf(price, entry, qty) == (price - entry) * qty

BacktestInit ==
    /\ initial_capital \in 1..MaxCapital
    /\ nbars \in 1..MaxBars
    /\ position = 0
    /\ trades = <<>>
    /\ capital = initial_capital
    /\ trade_count = 0
    /\ win_count = 0
    /\ buy_price = 0
    /\ bi = 0 /\ date = 0 /\ bar = NoBar /\ result = NoResult
    /\ bpc = "loop"
    /\ SigIdle
    /\ MainIdle
    /\ IndIdle

\* Mutant of ExecuteBuy: the entry price not recorded.
ExecuteBuy_no_entry(ts, b) ==
    LET qty == Shares(capital, b.Close) IN
    /\ position' = qty
    /\ capital' = capital - qty * b.Close
    /\ trades' = Append(trades, BuyTrade(ts, b.Close, qty))
    /\ UNCHANGED <<buy_price, trade_count, win_count>>

\* if row['Signal'] == 1 and position == 0:
ExecuteBuy(ts, b) ==
    LET qty == Shares(capital, b.Close) IN
    /\ position' = qty
    /\ buy_price' = b.Close
    /\ capital' = capital - qty * b.Close
    /\ trades' = Append(trades, BuyTrade(ts, b.Close, qty))
    /\ UNCHANGED <<trade_count, win_count>>

\* Mutant of ExecuteSell: a break-even exit counted as a win.
ExecuteSell_win_on_zero(ts, b) ==
    LET pnl == PnLOf(b.Close, buy_price, position) IN
    /\ capital' = capital + position * b.Close
    /\ trades' = Append(trades, SellTrade(ts, b.Close, position, pnl))
    /\ win_count' = IF pnl >= 0 THEN win_count + 1 ELSE win_count
    /\ trade_count' = trade_count + 1
    /\ position' = 0
    /\ UNCHANGED buy_price

\* elif row['Signal'] == -1 and position > 0:
ExecuteSell(ts, b) ==
    LET pnl == PnLOf(b.Close, buy_price, position) IN
    /\ capital' = capital + position * b.Close
    /\ trades' = Append(trades, SellTrade(ts, b.Close, position, pnl))
    /\ win_count' = IF pnl > 0 THEN win_count + 1 ELSE win_count
    /\ trade_count' = trade_count + 1
    /\ position' = 0
    /\ UNCHANGED buy_price

\* Mutant of BuyExecutes: a BUY signal executed whatever the position.
BuyExecutes_any_position(b) == b.Signal = 1

\* if row['Signal'] == 1 and position == 0
BuyExecutes(b) == b.Signal = 1 /\ position = 0

\* Mutant of SellExecutes: a SELL signal executed on a flat account too.
SellExecutes_when_flat(b) == b.Signal = -1

\* elif row['Signal'] == -1 and position > 0
SellExecutes(b) == b.Signal = -1 /\ position > 0

\* for date, row in df.iterrows(): one iteration
BacktestStep ==
    /\ bpc = "loop"
    /\ bi < nbars
    /\ \E b \in Bars(bi) :
        /\ bar' = b
        /\ IF BuyExecutes(b)
           THEN ExecuteBuy(bi, b)
           ELSE IF SellExecutes(b)
                THEN ExecuteSell(bi, b)
                ELSE UNCHANGED <<capital, position, buy_price, trades,
                                 trade_count, win_count>>
    /\ date' = bi
    /\ bi' = bi + 1
    /\ UNCHANGED <<initial_capital, nbars, result, bpc>>
    /\ UNCHANGED sigVars
    /\ UNCHANGED mainVars
    /\ UNCHANGED indVars

\* Mutant of FlushTrade: the position closed at its entry price.
FlushTrade_at_entry ==
    SellTrade(nbars - 1, buy_price, position,
              PnLOf(buy_price, buy_price, position))

\* The trade the flush appends: df.index[-1], df['Close'].iloc[-1]
FlushTrade ==
    SellTrade(nbars - 1, bar.Close, position,
              PnLOf(bar.Close, buy_price, position))

\* if position > 0: close any remaining position at the end
BacktestFlush ==
    /\ bpc = "loop"
    /\ bi = nbars
    /\ IF position > 0
       THEN LET pnl == PnLOf(bar.Close, buy_price, position) IN
            /\ capital' = capital + position * bar.Close
            /\ trades' = Append(trades, FlushTrade)
            /\ win_count' = IF pnl > 0 THEN win_count + 1 ELSE win_count
            /\ trade_count' = trade_count + 1
       ELSE UNCHANGED <<capital, trades, win_count, trade_count>>
    /\ bpc' = "metrics"
    /\ UNCHANGED <<initial_capital, position, buy_price, nbars, bi, date,
                   bar, result>>
    /\ UNCHANGED sigVars
    /\ UNCHANGED mainVars
    /\ UNCHANGED indVars

\* Mutant of Metrics: the win rate taken over every trade of the ledger.
Metrics_over_all_trades ==
    [total_return |-> <<capital - initial_capital, initial_capital>>,
     win_rate |-> IF Len(trades) > 0 THEN <<win_count, Len(trades)>>
                  ELSE <<0, 1>>,
     trade_count |-> Len(trades)]

\* total_return and win_rate as fractions <<numerator, denominator>>
Metrics ==
    [total_return |-> <<capital - initial_capital, initial_capital>>,
     win_rate |-> IF trade_count > 0 THEN <<win_count, trade_count>>
                  ELSE <<0, 1>>,
     trade_count |-> trade_count]

\* return trades, total_return, win_rate, trade_count
BacktestReturn ==
    /\ bpc = "metrics"
    /\ result' = Metrics
    /\ bpc' = "done"
    /\ UNCHANGED <<initial_capital, capital, position, buy_price, trades,
                   trade_count, win_count, nbars, bi, date, bar>>
    /\ UNCHANGED sigVars
    /\ UNCHANGED mainVars
    /\ UNCHANGED indVars

BacktestNext == BacktestStep \/ BacktestFlush \/ BacktestReturn

BacktestSpec == BacktestInit /\ [][BacktestNext]_vars

\* -------------------------------------------------------------------- main

Tickers == 1..MaxTickers

\* Lengths of the series fetch_stock_data returns: empty (also on a failed
\* fetch), just below and at the RSI window, and past the DMA_20 warm-up.
BarCounts == {0, RSI_WINDOW - 1, RSI_WINDOW, DMA_SHORT + MaxExtra}

\* What fetch_stock_data hands to calculate_technical_indicators: len is the
\* number of bars, columns_ok says the frame has the Close and Volume columns
\* of a bar sequence.  The empty frame of a failed fetch has no columns.
Frames ==
    {f \in [len : BarCounts, columns_ok : BOOLEAN] :
        f.len = 0 => ~f.columns_ok}

\* calculate_technical_indicators raises on df['Close'] / df['Volume'] of a
\* non-empty frame without these columns; df.empty returns before that.
IndicatorsRaise(f) == f.len > 0 /\ ~f.columns_ok

CleanLens_keeps_short(L) == 0..L

\* len() of what calculate_technical_indicators returns for a series of L
\* bars: empty for an empty or too short series, else the rows on which RSI
\* and DMA_20 are both defined (DMA_20 from row DMA_SHORT - 1 on; rows whose
\* RSI is undefined are dropped as well).
CleanLens(L) ==
    IF L = 0 THEN {0}
    ELSE IF L < RSI_WINDOW THEN {0}
    ELSE IF L < DMA_SHORT THEN {0}
    ELSE 0..(L - (DMA_SHORT - 1))

\* A ledger as main reads it: Timestamp (row index) and Type of each trade.
\* Trades come from rows 1 .. len - 1 in order; only the closing SELL of the
\* final row shares its row with the trade before it; a SELL closes the BUY
\* right before it.
LedgerOK(s, len) ==
    /\ \A k \in 1..Len(s) : s[k].Timestamp \in 1..(len - 1)
    /\ \A k \in 1..(Len(s) - 1) :
        \/ s[k].Timestamp < s[k + 1].Timestamp
        \/ /\ s[k].Timestamp = s[k + 1].Timestamp
           /\ s[k].Type = "BUY" /\ s[k + 1].Type = "SELL"
           /\ k + 1 = Len(s) /\ s[k].Timestamp = len - 1
    /\ \A k \in 1..Len(s) :
        s[k].Type = "SELL" => (k > 1 /\ s[k - 1].Type = "BUY")

\* What backtest_strategy can return for a frame of len rows.
Ledgers(len) ==
    LET T == [Timestamp : 1..(len - 1), Type : {"BUY", "SELL"}]
    IN  {s \in UNION {[1..m -> T] : m \in 0..MaxTrades} : LedgerOK(s, len)}

\* hist[t]: bars fetched for ticker t (-1 before its iteration), whether the
\* frame had its columns, whether signals and backtest ran, whether its
\* trades were logged, and the step whose exception main caught ("" if none).
NoRun ==
    [bars |-> -1, columns_ok |-> FALSE, computed |-> FALSE, logged |-> FALSE,
     raised |-> ""]

MainInit ==
    /\ mpc = "start" /\ tk = 0 /\ df_len = 0 /\ ledger = <<>>
    /\ hist = [k \in Tickers |-> NoRun]
    /\ trade_log = <<>> /\ all_summaries = <<>> /\ alerts = <<>>
    /\ summary_csv = <<>>
    /\ SigIdle
    /\ BtIdle
    /\ IndIdle

\* csv_writer.initialize_csv_files(), telegram_bot.send_startup_message(),
\* GoogleSheetsLogger(...): the first has no handler, the second swallows
\* its failures, a failure of the third makes main return.
MainStartup ==
    /\ mpc = "start"
    /\ \E outcome \in {"csv_raises", "sheets_raises", "ok"} :
        /\ mpc' = CASE outcome = "csv_raises" -> "crashed"
                    [] outcome = "sheets_raises" -> "returned"
                    [] OTHER -> "loop"
        /\ tk' = IF outcome = "ok" THEN 1 ELSE tk
    /\ UNCHANGED <<df_len, ledger, hist, trade_log, all_summaries, alerts,
                   summary_csv>>
    /\ UNCHANGED <<sigVars, btVars, indVars>>

\* The for loop moves to the next ticker; df and trades are rebound there
\* before they are read again.
NextTicker ==
    /\ tk' = tk + 1
    /\ mpc' = "loop"
    /\ df_len' = 0
    /\ ledger' = <<>>

Caught_propagates(step) ==
    /\ hist' = [hist EXCEPT ![tk].raised = step]
    /\ mpc' = "crashed"
    /\ UNCHANGED <<tk, df_len, ledger>>

\* except Exception as e: ... continue
Caught(step) ==
    /\ hist' = [hist EXCEPT ![tk].raised = step]
    /\ NextTicker

\* fetch_stock_data, calculate_technical_indicators, if df.empty: continue
MainIndicators ==
    /\ mpc = "loop" /\ tk <= MaxTickers
    /\ \E f \in Frames :
        LET seen == [hist EXCEPT ![tk].bars = f.len,
                                 ![tk].columns_ok = f.columns_ok]
        IN  IF IndicatorsRaise(f)
            THEN /\ hist' = [seen EXCEPT ![tk].raised = "indicators"]
                 /\ NextTicker
            ELSE \E clean \in CleanLens(f.len) :
                    /\ hist' = seen
                    /\ IF clean = 0
                       THEN NextTicker
                       ELSE /\ df_len' = clean
                            /\ mpc' = "strategy"
                            /\ UNCHANGED <<tk, ledger>>
    /\ UNCHANGED <<trade_log, all_summaries, alerts, summary_csv>>
    /\ UNCHANGED <<sigVars, btVars, indVars>>

\* generate_signals, backtest_strategy; an exception in either is caught
MainStrategy ==
    /\ mpc = "strategy"
    /\ \E raises \in BOOLEAN :
        IF raises
        THEN Caught("strategy")
        ELSE /\ \E lg \in Ledgers(df_len) : ledger' = lg
             /\ hist' = [hist EXCEPT ![tk].computed = TRUE]
             /\ mpc' = "log"
             /\ UNCHANGED <<tk, df_len>>
    /\ UNCHANGED <<trade_log, all_summaries, alerts, summary_csv>>
    /\ UNCHANGED <<sigVars, btVars, indVars>>

\* for trade in trades: csv_writer.log_trade, sheets_logger.log_trade
\* (both swallow their failures)
MainTradeLog ==
    /\ mpc = "log"
    /\ trade_log' = trade_log \o
            [k \in 1..Len(ledger) |->
                [Ticker |-> tk, Timestamp |-> ledger[k].Timestamp,
                 Signal |-> ledger[k].Type]]
    /\ hist' = [hist EXCEPT ![tk].logged = TRUE]
    /\ mpc' = "ml"
    /\ UNCHANGED <<tk, df_len, ledger, all_summaries, alerts, summary_csv>>
    /\ UNCHANGED <<sigVars, btVars, indVars>>

\* What train_ml_models meets: prepare_features raises; train_model returns
\* a model, returns None for insufficient data, or raises.
MLOutcomes == {"features_raise", "trained", "none_model", "train_raises"}

\* best_accuracy = train_ml_models(ticker, df).  With a None model
\* best_accuracy is never bound and `if best_accuracy > 0` raises;
\* prepare_features runs outside the try of train_ml_models.
MainTrainML ==
    /\ mpc = "ml"
    /\ \E outcome \in MLOutcomes :
        IF outcome \in {"features_raise", "none_model"}
        THEN Caught("ml")
        ELSE mpc' = "summary" /\ UNCHANGED <<tk, df_len, ledger, hist>>
    /\ UNCHANGED <<trade_log, all_summaries, alerts, summary_csv>>
    /\ UNCHANGED <<sigVars, btVars, indVars>>

\* all_summaries.append(summary_data), sheets_logger.log_summary,
\* sheets_logger.log_win_ratio (neither has a handler of its own)
MainSummary ==
    /\ mpc = "summary"
    /\ all_summaries' = Append(all_summaries, tk)
    /\ \E sheets_raises \in BOOLEAN :
        IF sheets_raises
        THEN Caught("sheets")
        ELSE mpc' = "alerts" /\ UNCHANGED <<tk, df_len, ledger, hist>>
    /\ UNCHANGED <<trade_log, alerts, summary_csv>>
    /\ UNCHANGED <<sigVars, btVars, indVars>>

\* send_trading_alerts(ticker, trades, best_accuracy): the most recent
\* trade of a non-empty ledger goes to telegram_bot.send_trading_signal.
SendTradingAlerts(ticker, trs, last_row) ==
    IF trs # <<>>
    THEN Append(alerts,
            [Ticker |-> ticker,
             Timestamp |-> trs[Len(trs)].Timestamp,
             Signal |-> trs[Len(trs)].Type,
             LastRow |-> last_row])
    ELSE alerts

MainAlerts ==
    /\ mpc = "alerts"
    /\ alerts' = SendTradingAlerts(tk, ledger, df_len - 1)
    /\ NextTicker
    /\ UNCHANGED <<hist, trade_log, all_summaries, summary_csv>>
    /\ UNCHANGED <<sigVars, btVars, indVars>>

\* finalize_system(all_summaries)
MainFinalize ==
    /\ mpc = "loop" /\ tk > MaxTickers
    /\ summary_csv' = all_summaries
    /\ mpc' = "done"
    /\ UNCHANGED <<tk, df_len, ledger, hist, trade_log, all_summaries, alerts>>
    /\ UNCHANGED <<sigVars, btVars, indVars>>

MainNext ==
    \/ MainStartup \/ MainIndicators \/ MainStrategy \/ MainTradeLog
    \/ MainTrainML \/ MainSummary \/ MainAlerts \/ MainFinalize

MainSpec == MainInit /\ [][MainNext]_vars

\* ----------------------------------------- calculate_technical_indicators

\* gain = delta.where(delta > 0, 0); loss = -delta.where(delta < 0, 0)
Gain(delta) == IF delta > 0 THEN delta ELSE 0

Loss(delta) == IF delta < 0 THEN 0 - delta ELSE 0

\* ewm(alpha = 1 / RSI_WINDOW, adjust = False).mean() of a series of values
\* >= 0, y[t] = (1 - alpha) * y[t-1] + alpha * x[t]: its value is 0 as long
\* as every input was 0 and > 0 from the first positive input on.  Only
\* that sign is carried.
Ewm(before, x) == IF before = "pos" \/ x > 0 THEN "pos" ELSE "zero"

\* rs = avg_gain / avg_loss in floating point: 0 / 0 is NaN, x / 0 is
\* infinite, no exception is raised.
RS(g, l) ==
    CASE g = "zero" /\ l = "zero" -> "NaN"
      [] g = "pos" /\ l = "zero" -> "inf"
      [] g = "zero" /\ l = "pos" -> "0"
      [] OTHER -> "finite"

\* 100 - (100 / (1 + rs))
RSIOf(rs) ==
    CASE rs = "NaN" -> "NaN"
      [] rs = "inf" -> "100"
      [] rs = "0" -> "0"
      [] OTHER -> "between"

\* min_periods = RSI_WINDOW: the averages are NaN on the rows before.
PastWarmup(k) == k >= RSI_WINDOW - 1

RowRSI(k, g, l) == IF PastWarmup(k) THEN RSIOf(RS(g, l)) ELSE "NaN"

\* df.dropna(subset = ['RSI', 'DMA_20']): DMA_20 is a rolling mean over
\* DMA_SHORT rows.
Kept(k, r) == r # "NaN" /\ k >= DMA_SHORT - 1

\* Row 0: delta is NaN, which both where() calls replace by 0.
IndicatorInit ==
    /\ ipc = "loop"
    /\ nrows \in BarCounts
    /\ ri = 0
    /\ last_close \in (IF nrows = 0 THEN {0} ELSE Prices)
    /\ avg_gain = "zero" /\ avg_loss = "zero"
    /\ rsi = "NaN"
    /\ kept = FALSE
    /\ out_len = 0
    /\ SigIdle
    /\ BtIdle
    /\ MainIdle

\* The indicators of row ri + 1
IndicatorStep ==
    /\ ipc = "loop"
    /\ ri + 1 < nrows
    /\ \E c \in Prices :
        LET delta == c - last_close
            g == Ewm(avg_gain, Gain(delta))
            l == Ewm(avg_loss, Loss(delta))
            r == RowRSI(ri + 1, g, l)
            k == nrows >= RSI_WINDOW /\ Kept(ri + 1, r)
        IN  /\ last_close' = c
            /\ avg_gain' = g
            /\ avg_loss' = l
            /\ rsi' = r
            /\ kept' = k
            /\ out_len' = IF k THEN out_len + 1 ELSE out_len
    /\ ri' = ri + 1
    /\ UNCHANGED <<ipc, nrows>>
    /\ UNCHANGED <<sigVars, btVars, mainVars>>

\* if df.empty: return df / if len(df) < RSI_WINDOW: return pd.DataFrame()
\* / return df_clean
IndicatorReturn ==
    /\ ipc = "loop"
    /\ ri + 1 >= nrows
    /\ ipc' = "done"
    /\ UNCHANGED <<nrows, ri, last_close, avg_gain, avg_loss, rsi, kept,
                   out_len>>
    /\ UNCHANGED <<sigVars, btVars, mainVars>>

IndicatorNext == IndicatorStep \/ IndicatorReturn

IndicatorSpec == IndicatorInit /\ [][IndicatorNext]_vars

\* ------------------------------------------------ properties: SignalEngine

\* Row i has been processed by the loop.
RowDone == spc \in {"loop", "done"} /\ i >= 1

\* Some BUY rule of row i holds, its flat-position gate left aside.
AnyBuyCondition == BuyFires(has_long_ma, prev, row, 0)

\* Some position-gated exit rule of row i holds, its gate left aside.
AnyGatedExit ==
    \/ death_cross(has_long_ma, prev, row)
    \/ row.RSI > 65 /\ ma20_below_ma50(has_long_ma, prev, row)
    \/ price_below_ma20(row) /\ ma20_below_ma50(has_long_ma, prev, row)

\* The most recent non-zero Signal before row k is +1.
LongBefore(k) ==
    \E j \in 0..(k - 1) :
        Signal[j] = 1 /\ \A m \in (j + 1)..(k - 1) : Signal[m] = 0

\* C1: on a row i > 0 where the machine is flat (Position[i-1] = 0) and at
\* least one BUY condition holds, Signal[i] = +1 and Position[i] = 1.
C1_BuyEntersLong ==
    (RowDone /\ Position[i - 1] = 0 /\ AnyBuyCondition)
        => (Signal[i] = 1 /\ Position[i] = 1)

\* C2: no BUY while long: no row with Signal +1 whose most recent earlier
\* non-zero Signal is also +1.
C2_NoBuyWhileLong ==
    spc \in {"loop", "done"} =>
        \A k \in 1..i : Signal[k] = 1 => ~LongBefore(k)

\* C3: while long (the most recent earlier non-zero Signal is +1), a row on
\* which no BUY condition holds and a position-gated exit holds (death
\* cross, RSI > 65 below the long MA, stop-loss) gets Signal -1, Position 0.
C3_GatedExitWhileLong ==
    (RowDone /\ LongBefore(i) /\ ~AnyBuyCondition /\ AnyGatedExit)
        => (Signal[i] = -1 /\ Position[i] = 0)

\* C4: Position is 0 or 1 on every row; it goes 0 -> 1 only on a row with
\* Signal +1, 1 -> 0 only on a row with Signal -1, and a row with Signal 0
\* keeps the Position of the row before.
C4_PositionFollowsSignal ==
    spc \in {"loop", "done"} =>
        /\ \A k \in 0..(n - 1) : Position[k] \in {0, 1}
        /\ \A k \in 1..i :
            /\ (Position[k] = 1 /\ Position[k - 1] = 0) => Signal[k] = 1
            /\ (Position[k] = 0 /\ Position[k - 1] = 1) => Signal[k] = -1
            /\ Signal[k] = 0 => Position[k] = Position[k - 1]

\* A finished three-row run with a BUY on row 1 and a hold on row 2, which
\* keeps the Position of row 1.
C4_Witness ==
    /\ spc = "done" /\ n = 3
    /\ Signal[1] = 1 /\ Signal[2] = 0
    /\ Position[2] = Position[1]

\* C5: Signal is -1, 0 or +1 on every row, and on no row do a BUY condition
\* and a SELL condition both hold for the row's current_position, so the
\* SELL block never overwrites a +1 the BUY block wrote.
C5_BuySellExclusive ==
    /\ spc \in {"loop", "done"} => \A k \in 0..(n - 1) : Signal[k] \in {-1, 0, 1}
    /\ RowDone =>
        /\ ~(BuyFires(has_long_ma, prev, row, Position[i - 1])
                /\ SellFires(has_long_ma, prev, row, Position[i - 1]))
        /\ BuyBlock(has_long_ma, prev, row, Position[i - 1]).Signal = 1
                => Signal[i] = 1

\* A row on which a BUY condition held and the BUY survived the SELL block.
C5_Witness ==
    /\ RowDone
    /\ BuyFires(has_long_ma, prev, row, Position[i - 1])
    /\ Signal[i] = 1

\* C6: no lookahead: the Signal and Position columns computed for the first
\* len rows of a frame equal the first len rows of the columns computed
\* for the whole frame.
C6_NoLookahead ==
    spc \in {"loop", "done"} =>
        \A len \in 1..n : \A k \in 0..(len - 1) :
            k <= i => /\ pre[len].Signal[k] = Signal[k]
                      /\ pre[len].Position[k] = Position[k]

\* C20: every row i > 0 with RSI > 70 gets Signal -1 and Position 0,
\* whatever the position of the row before and whatever was signalled
\* earlier: the strong-overbought SELL is not position-gated.
C20_StrongSellUngated ==
    (RowDone /\ row.RSI > 70) => (Signal[i] = -1 /\ Position[i] = 0)

\* Two overbought rows in a row: the second one is signalled SELL although
\* the first already was and nothing was bought in between.
C20_Witness ==
    /\ RowDone /\ i = 2 /\ row.RSI > 70
    /\ Signal[1] = -1 /\ Signal[2] = -1
    /\ Position[1] = 0

\* C21: no BUY on a row whose RSI is 40 or higher: Signal[i] = +1 implies
\* RSI[i] < 40, with a defined long MA and in the fallback branch alike.
C21_NoBuyAtRsi40 ==
    (RowDone /\ Signal[i] = 1) => row.RSI < 40

\* A BUY on a row with RSI 30, which only the golden-cross rule (RSI < 40)
\* admits, in a frame that has a defined long MA.
C21_Witness ==
    /\ RowDone /\ has_long_ma
    /\ Signal[i] = 1 /\ row.RSI = 30

\* Row i is read through the fallback: DMA_50 is undefined on every row.
NoLongMa == nan50 = n

\* C22: when DMA_50 is undefined on every row the tests of row i are the
\* close-against-short-MA ones: golden cross is close[i] > DMA_20[i] and
\* close[i-1] <= DMA_20[i-1], death cross is the mirrored test, the uptrend
\* and downtrend tests are close[i] > DMA_20[i] and close[i] < DMA_20[i];
\* a BUY then sits on a row whose close is above its DMA_20.
C22_FallbackWithoutLongMa ==
    (RowDone /\ NoLongMa) =>
        /\ golden_cross(has_long_ma, prev, row)
            = (row.Close > row.DMA_20 /\ prev.Close <= prev.DMA_20)
        /\ death_cross(has_long_ma, prev, row)
            = (row.Close < row.DMA_20 /\ prev.Close >= prev.DMA_20)
        /\ ma20_above_ma50(has_long_ma, prev, row) = (row.Close > row.DMA_20)
        /\ ma20_below_ma50(has_long_ma, prev, row) = (row.Close < row.DMA_20)
        /\ Signal[i] = 1 => row.Close > row.DMA_20
        /\ (row.Close > row.DMA_20 /\ prev.Close <= prev.DMA_20
                /\ row.RSI < 40 /\ Position[i - 1] = 0) => Signal[i] = 1

\* A finished run without any DMA_50 whose last row is a fallback golden
\* cross with RSI 30 and got its BUY.
C22_Witness ==
    /\ spc = "done" /\ i >= 1 /\ NoLongMa
    /\ row.Close > row.DMA_20 /\ prev.Close <= prev.DMA_20
    /\ row.RSI = 30 /\ Signal[i] = 1

\* C23: row 0 has Signal 0 and Position 0 whatever its indicator values
\* are, and a one-row series is all hold.
C23_RowZeroHolds ==
    spc \in {"loop", "done"} =>
        /\ Signal[0] = 0 /\ Position[0] = 0
        /\ n = 1 => \A k \in 0..(n - 1) : Signal[k] = 0 /\ Position[k] = 0

\* A finished one-row run whose only row is overbought.
C23_Witness ==
    /\ spc = "done" /\ n = 1 /\ row.RSI > 70
    /\ Signal[0] = 0

\* Row i got its BUY from the golden-cross rule alone, in a frame with a
\* defined DMA_50 somewhere.
GoldenRuleBuy ==
    /\ RowDone /\ has_long_ma /\ Signal[i] = 1
    /\ golden_buy(has_long_ma, prev, row, Position[i - 1])
    /\ ~strong_buy(has_long_ma, prev, row, Position[i - 1])
    /\ ~trend_buy(has_long_ma, prev, row, Position[i - 1])

\* C29: a golden-cross BUY in a frame with a defined DMA_50 sits on a real
\* cross: DMA_50 is defined on row i-1, DMA_20[i-1] <= DMA_50[i-1] and
\* DMA_20[i] > DMA_50[i].
C29_GoldenCrossIsRealCross ==
    GoldenRuleBuy =>
        /\ ~isna(prev.DMA_50) /\ ~isna(row.DMA_50)
        /\ prev.DMA_20 <= prev.DMA_50
        /\ row.DMA_20 > row.DMA_50

\* C30: in a frame where DMA_50 is defined on some row, a row whose own
\* DMA_50 is undefined gets no BUY, whatever its RSI and close.
C30_NoBuyWithoutOwnLongMa ==
    (RowDone /\ has_long_ma /\ isna(row.DMA_50)) => Signal[i] # 1

\* A deeply oversold row above its short MA, without a DMA_50 of its own
\* in a frame that has one later, and not signalled BUY.
C30_Witness ==
    /\ RowDone /\ has_long_ma /\ isna(row.DMA_50)
    /\ row.RSI < 25 /\ row.Close > row.DMA_20
    /\ Signal[i] = 0

\* --------------------------------------------- properties: BacktestEngine

CountType(ty) == Cardinality({k \in 1..Len(trades) : trades[k].Type = ty})

\* C7: the returned ledger holds as many BUY trades as SELL trades.
C7_BuysEqualSells ==
    bpc = "done" => CountType("BUY") = CountType("SELL")

\* C8: a Signal +1 on a flat account whose capital is below the close is a
\* silent no-op: no trade is appended and capital, position size and entry
\* price stay as they were.
C8_ZeroShareBuyIsNoOp ==
    [][(bpc = "loop" /\ bi' = bi + 1 /\ bar'.Signal = 1 /\ position = 0
            /\ capital < bar'.Close)
        => UNCHANGED <<trades, capital, position, buy_price>>]_vars

\* C9: capital is never negative, during the pass, after a BUY and after
\* the end-of-sequence flush.
C9_CapitalNonNegative ==
    bpc \in {"loop", "metrics", "done"} => capital >= 0

\* A BUY of at least one share has just executed.
C9_Witness ==
    /\ bpc = "loop" /\ Len(trades) > 0
    /\ trades[Len(trades)].Type = "BUY"
    /\ position > 0
    /\ capital = 0

\* C10: when the pass ends with a position open, the flush appends exactly
\* one SELL trade dated at the final row with the final close as price,
\* adds the proceeds to capital and counts the trade (a win iff PnL > 0).
C10_FlushClosesOpenPosition ==
    [][(bpc = "loop" /\ bpc' = "metrics" /\ position > 0)
        => LET pnl == (bar.Close - buy_price) * position IN
           /\ date = nbars - 1
           /\ trades' = Append(trades,
                  [Timestamp |-> date, Type |-> "SELL", Price |-> bar.Close,
                   Quantity |-> position, PnL |-> pnl])
           /\ capital' = capital + position * bar.Close
           /\ trade_count' = trade_count + 1
           /\ win_count' = IF pnl > 0 THEN win_count + 1 ELSE win_count]_vars

\* The flush has closed a position that was bought on an earlier row and
\* the close has moved since.
C10_Witness ==
    /\ bpc = "metrics" /\ position > 0 /\ Len(trades) >= 2
    /\ trades[Len(trades)].Type = "SELL"
    /\ trades[Len(trades)].Timestamp = nbars - 1
    /\ trades[Len(trades) - 1].Type = "BUY"
    /\ trades[Len(trades) - 1].Timestamp < nbars - 1
    /\ trades[Len(trades)].PnL > 0

\* The SELL trades of the ledger, and the sum of their PnL.
Sells == {k \in 1..Len(trades) : trades[k].Type = "SELL"}

RECURSIVE SumPnL(_)
SumPnL(k) ==
    IF k = 0 THEN 0
    ELSE SumPnL(k - 1) + (IF trades[k].Type = "SELL" THEN trades[k].PnL ELSE 0)

RealizedPnL == SumPnL(Len(trades))

\* C11: every opened position is realized into the return: at return the
\* capital is the initial capital plus the PnL of all SELL trades, so
\* total_return * initial_capital is that sum; during the pass capital plus
\* position_size * entry price is the initial capital plus the realized PnL.
C11_ReturnIsRealizedPnL ==
    /\ bpc = "loop" =>
        capital + position * buy_price = initial_capital + RealizedPnL
    /\ bpc \in {"metrics", "done"} =>
        capital = initial_capital + RealizedPnL
    /\ bpc = "done" =>
        /\ result.total_return[1] = RealizedPnL
        /\ result.total_return[2] = initial_capital

\* A returned run with a losing round trip and a second position closed by
\* the flush.
C11_Witness ==
    /\ bpc = "done" /\ Cardinality(Sells) = 2
    /\ \E k \in Sells : trades[k].PnL < 0
    /\ RealizedPnL < 0
    /\ capital < initial_capital
    /\ position > 0

\* C12: a Signal -1 on a held position books PnL = (close - entry price) *
\* position_size, adds close * position_size to capital, appends exactly one
\* SELL trade with that PnL and the held quantity, resets position_size,
\* adds 1 to trade_count and adds 1 to win_count iff PnL > 0.
C12_SellAccounting ==
    [][(bpc = "loop" /\ bi' = bi + 1 /\ bar'.Signal = -1 /\ position > 0)
        => LET pnl == (bar'.Close - buy_price) * position IN
           /\ capital' = capital + bar'.Close * position
           /\ trades' = Append(trades,
                  [Timestamp |-> date', Type |-> "SELL",
                   Price |-> bar'.Close, Quantity |-> position, PnL |-> pnl])
           /\ position' = 0
           /\ trade_count' = trade_count + 1
           /\ win_count' = IF pnl > 0 THEN win_count + 1 ELSE win_count]_vars

\* A SELL row has just closed a position at a profit before the last row.
C12_Witness ==
    /\ bpc = "loop" /\ bi < nbars /\ bar.Signal = -1
    /\ Len(trades) >= 2
    /\ trades[Len(trades)].Type = "SELL"
    /\ trades[Len(trades)].Timestamp = date
    /\ trades[Len(trades)].PnL > 0
    /\ trades[Len(trades)].Quantity > 1
    /\ position = 0 /\ win_count = 1 /\ trade_count = 1

\* C13: a Signal +1 on a flat account with capital >= close buys
\* floor(capital / close) shares: position_size is the largest count whose
\* cost fits in capital, capital drops by that cost, the close becomes the
\* entry price and exactly one BUY trade with that price and quantity is
\* appended.
C13_BuyAccounting ==
    [][(bpc = "loop" /\ bi' = bi + 1 /\ bar'.Signal = 1 /\ position = 0
            /\ capital >= bar'.Close)
        => /\ position' >= 1
           /\ position' * bar'.Close <= capital
           /\ (position' + 1) * bar'.Close > capital
           /\ capital' = capital - position' * bar'.Close
           /\ buy_price' = bar'.Close
           /\ trades' = Append(trades,
                  [Timestamp |-> date', Type |-> "BUY",
                   Price |-> bar'.Close, Quantity |-> position'])
           /\ UNCHANGED <<trade_count, win_count>>]_vars

\* A BUY of several shares that leaves a remainder of capital, at a close
\* that differs from the entry price of the round trip before.
C13_Witness ==
    /\ bpc = "loop" /\ bar.Signal = 1
    /\ Len(trades) = 3
    /\ trades[3].Type = "BUY" /\ trades[3].Timestamp = date
    /\ trades[3].Quantity > 1
    /\ trades[3].Price # trades[1].Price
    /\ buy_price = bar.Close
    /\ capital > 0

\* C14: the returned win_rate is (SELL trades with PnL > 0) / (SELL trades)
\* and the returned trade_count is the number of SELL trades, flush
\* included, BUYs not counted; with no SELL trade the win_rate is 0.
C14_WinRate ==
    bpc = "done" =>
        LET wins == Cardinality({k \in Sells : trades[k].PnL > 0}) IN
        /\ result.trade_count = Cardinality(Sells)
        /\ result.win_rate[2] > 0
        /\ IF Cardinality(Sells) = 0
           THEN result.win_rate[1] = 0
           ELSE result.win_rate[1] * Cardinality(Sells)
                    = wins * result.win_rate[2]

\* A returned run whose ledger holds a winning and a losing SELL, one of
\* them appended by the flush.
C14_Witness ==
    /\ bpc = "done" /\ position > 0
    /\ Cardinality(Sells) = 2
    /\ Cardinality({k \in Sells : trades[k].PnL > 0}) = 1
    /\ result.win_rate = <<1, 2>>

\* C25: a signal that does not match the position has no effect: a row
\* with Signal -1 on a flat account, a row with Signal +1 while shares are
\* held and a row with Signal 0 append no trade and leave capital, position
\* size, entry price, trade_count and win_count as they were.
C25_UnmatchedSignalIsNoOp ==
    [][(bpc = "loop" /\ bi' = bi + 1
            /\ \/ bar'.Signal = 0
               \/ bar'.Signal = -1 /\ position = 0
               \/ bar'.Signal = 1 /\ position > 0)
        => UNCHANGED <<trades, capital, position, buy_price, trade_count,
                       win_count>>]_vars

\* The row just iterated carried Signal +1 while the shares of an earlier
\* BUY were held, and the ledger still holds that BUY only.
C25_Witness ==
    /\ bpc = "loop" /\ bi >= 2
    /\ bar.Signal = 1 /\ position > 0
    /\ Len(trades) = 1 /\ trades[1].Timestamp < date

\* C26: no same-bar round trip: the ledger never holds a BUY trade and a
\* SELL trade with the same timestamp, the end-of-sequence flush included.
C26_NoSameBarRoundTrip ==
    \A j, k \in 1..Len(trades) :
        (trades[j].Type = "BUY" /\ trades[k].Type = "SELL")
            => trades[j].Timestamp # trades[k].Timestamp

\* C27: every SELL trade of the ledger directly follows a BUY trade of the
\* same Quantity, that Quantity is > 0, the SELL is not dated before that
\* BUY, and no two SELL trades are adjacent.
C27_SellFollowsItsBuy ==
    \A k \in 1..Len(trades) :
        trades[k].Type = "SELL" =>
            /\ k > 1
            /\ trades[k - 1].Type = "BUY"
            /\ trades[k - 1].Quantity = trades[k].Quantity
            /\ trades[k].Quantity > 0
            /\ trades[k].Timestamp >= trades[k - 1].Timestamp

\* A returned ledger of two round trips, the second closed by the flush.
C27_Witness ==
    /\ bpc = "done" /\ Len(trades) = 4
    /\ trades[2].Type = "SELL" /\ trades[4].Type = "SELL"
    /\ trades[2].Timestamp < trades[3].Timestamp

\* ------------------------------------------- properties: IndicatorEngine

\* C24: on a row past the RSI warm-up whose smoothed average loss is 0 the
\* RSI reads 100, also when the average gain is 0 as well, never an
\* undefined value; the row is not lost to the NaN clean-up.
C24_ZeroLossReadsOverbought ==
    (ipc \in {"loop", "done"} /\ ri < nrows /\ PastWarmup(ri)
            /\ avg_loss = "zero")
        => /\ rsi = "100"
           /\ ri >= DMA_SHORT - 1 => kept

\* -------------------------------------------------------- properties: main

\* Ticker t has an entry in one of the outputs of the run.
HasTradeLog(t) == \E k \in 1..Len(trade_log) : trade_log[k].Ticker = t
HasSummary(t) == \E k \in 1..Len(all_summaries) : all_summaries[k] = t
HasAlert(t) == \E k \in 1..Len(alerts) : alerts[k].Ticker = t

\* Ticker t was fetched as a bar sequence shorter than the RSI window (the
\* empty frame of a failed fetch included).
ShortSeries(t) ==
    /\ hist[t].bars \in 0..(RSI_WINDOW - 1)
    /\ (hist[t].bars = 0 \/ hist[t].columns_ok)

AbortedRun == mpc \in {"crashed", "returned"}

\* C16: a ticker whose bar sequence has fewer than RSI_WINDOW bars (the empty
\* sequence of a failed fetch included) raises nothing and is skipped: no
\* signal generation or backtest, no trade log entry, no summary, no alert
\* for it, and the loop has moved on to the next ticker.
C16_ShortSeriesSkipped ==
    \A t \in Tickers :
        ShortSeries(t) =>
            /\ hist[t].raised = ""
            /\ ~hist[t].computed /\ ~hist[t].logged
            /\ ~HasTradeLog(t) /\ ~HasSummary(t) /\ ~HasAlert(t)
            /\ tk > t
            /\ ~AbortedRun

\* C16 witness: the first ticker came with RSI_WINDOW - 1 bars and was
\* skipped, the second was computed and alerted, and the run finished.
C16_Witness ==
    /\ mpc = "done"
    /\ hist[1].bars = RSI_WINDOW - 1 /\ hist[1].columns_ok
    /\ hist[2].computed /\ HasAlert(2) /\ ~HasAlert(1)

\* C17: an exception raised while a ticker is processed never ends the run:
\* main catches it and moves to the next ticker, the run can always take its
\* next step, and when it is over every ticker had its iteration and
\* finalize_system wrote the summaries.
C17_TickerExceptionContained ==
    /\ \A t \in Tickers : hist[t].raised # "" => (tk > t /\ ~AbortedRun)
    /\ (mpc \notin {"done", "crashed", "returned"}) => ENABLED MainNext
    /\ mpc = "done" =>
        /\ \A t \in Tickers : hist[t].bars # -1
        /\ summary_csv = all_summaries

\* C17 witness: the indicators raised for the first ticker, the second was
\* computed and summarised, and finalize_system ran.
C17_Witness ==
    /\ mpc = "done"
    /\ hist[1].raised = "indicators"
    /\ hist[2].computed /\ hist[2].raised = ""
    /\ summary_csv = <<2>>

\* C17 second case: generate_signals or backtest_strategy raised for the
\* first ticker and the run still finished with the second one.
C17_WitnessStrategy ==
    /\ mpc = "done"
    /\ hist[1].raised = "strategy"
    /\ hist[2].computed
    /\ summary_csv = <<2>>

\* C18: a failure of an external collaborator (market data fetch, Telegram,
\* CSV persistence, Google Sheets logging or connection) never keeps the
\* run from reaching the tickers: a run that has ended gave every ticker
\* its iteration.
C18_CollaboratorFailureIsolated ==
    mpc \in {"done", "crashed", "returned"} =>
        \A t \in Tickers : hist[t].bars # -1

\* C19: the alert sink is invoked at most once per ticker, and only for a
\* trade on the final row of the ticker's series.
C19_AlertOnlyForFinalRow ==
    /\ \A j, k \in 1..Len(alerts) :
        alerts[j].Ticker = alerts[k].Ticker => j = k
    /\ \A k \in 1..Len(alerts) : alerts[k].Timestamp = alerts[k].LastRow

\* C28: every ticker whose backtest completed and whose trades were handed
\* to the trade log has, once its iteration is over, a summary in
\* all_summaries, whatever ML training did; finalize_system writes them.
C28_LoggedTickerIsSummarised ==
    /\ \A t \in Tickers :
        (hist[t].bars # -1 /\ hist[t].logged /\ tk > t) => HasSummary(t)
    /\ mpc = "done" => summary_csv = all_summaries

====
